---- MODULE Spec2Model ----
(***************************************************************************)
(* Legacy PLC simulator (src/legacy_plc.cpp): the scan-cycle engine, its   *)
(* fixed control program and the two protocol front-ends.                  *)
(*                                                                         *)
(* Text is modelled as a sequence of one-character strings, so that        *)
(* std::stoi, substr and the stream formatting are computed character by   *)
(* character.  The unsigned 32-bit cycle counter is kept as two 16-bit     *)
(* halves [hi, lo], value hi * 65536 + lo, so that it wraps at 2^32.       *)
(***************************************************************************)
EXTENDS Integers, Sequences, FiniteSets, TLC

VARIABLES
    state,               \* SystemState state
    server_socket,       \* "none" (-1), "unbound" (socket made, bind failed), "listening"
    mgmt_socket,         \* "none" (-1) or "listening"
    last_cycle,          \* steady_clock time of the last executed cycle's tick, ms
    now,                 \* run_scan_cycle's local `now`, ms
    log_file,            \* [is_open, hex, rows, written]: the ofstream, its basefield flag, rows written, the last call's row
    temp_simulation,     \* static double of scan_inputs (virtual build), in tenths
    pressure_simulation, \* static double of scan_inputs (virtual build)
    pressure_base,       \* static int of scan_inputs (hardware build)
    virtual_hardware,    \* TRUE for a build with VIRTUAL_HARDWARE defined
    stop_file,           \* whether /tmp/plc_stop exists
    ctrl_queue,          \* clients whose connection waits on the control socket, oldest first
    mgmt_queue,          \* clients whose connection waits on the management socket
    ctrl_io,             \* observer: what handle_control_connections did in this cycle
    mgmt_io,             \* observer: what handle_management_connections did in this cycle
    tick_log,            \* history: <<tick time of the previous executed cycle, of the latest>>
    evaluated,           \* history: execute_control_logic has run at least once
    pc                   \* position of the main loop

vars == <<state, server_socket, mgmt_socket, last_cycle, now, log_file,
          temp_simulation, pressure_simulation, pressure_base, virtual_hardware,
          stop_file, ctrl_queue, mgmt_queue, ctrl_io, mgmt_io, tick_log,
          evaluated, pc>>

----------------------------------------------------------------------------
(* Program constants *)

CYCLE_TIME_MS == 100
MAX_INPUTS == 16
MAX_OUTPUTS == 16
MAX_REGISTERS == 256
CTRL_BUFFER_SIZE == 256
MGMT_BUFFER_SIZE == 1024
INT_MAX == 2147483647
UINT16_MOD == 65536

(* Bounds of the model *)

MaxTime == 350        \* the steady clock is followed up to this many ms
MaxPending == 1       \* connections waiting on one listening socket
MaxDrift == 1         \* how far the hardware build's pressure walk is followed from its origin
QuietCycles == 100    \* executed cycles of a run without clients

----------------------------------------------------------------------------
(* Text *)

CR == "\r"
LF == "\n"
NUL == "NUL"          \* the byte '\0'

Digits == <<"0", "1", "2", "3", "4", "5", "6", "7", "8", "9">>
HexDigits == <<"0", "1", "2", "3", "4", "5", "6", "7", "8", "9",
               "a", "b", "c", "d", "e", "f">>

IsDigit(c) == \E i \in 1..10 : Digits[i] = c
DigitVal(c) == (CHOOSE i \in 1..10 : Digits[i] = c) - 1

\* isspace() in the "C" locale
IsSpace(c) == c \in {" ", "\t", "\n", "\r", "\f", "VT"}

Min(a, b) == IF a < b THEN a ELSE b

\* std::string::substr(pos, n), for pos <= size
substr(s, pos, n) == SubSeq(s, pos + 1, Min(pos + n, Len(s)))

\* std::string::substr(pos), for pos <= size
substr_from(s, pos) == SubSeq(s, pos + 1, Len(s))

\* std::string(const char*): the bytes before the first NUL
RECURSIVE c_str_length(_)
c_str_length(bytes) ==
    IF bytes = <<>> \/ Head(bytes) = NUL THEN 0 ELSE 1 + c_str_length(Tail(bytes))

string_from_buffer(bytes) == SubSeq(bytes, 1, c_str_length(bytes))

\* operator<< of an unsigned value in decimal, no padding
RECURSIVE Decimal(_)
Decimal(n) ==
    IF n < 10 THEN <<Digits[n + 1]>>
    ELSE Append(Decimal(n \div 10), Digits[(n % 10) + 1])

\* operator<< of a non-negative value under std::hex, no padding
RECURSIVE Hexadecimal(_)
Hexadecimal(n) ==
    IF n < 16 THEN <<HexDigits[n + 1]>>
    ELSE Append(Hexadecimal(n \div 16), HexDigits[(n % 16) + 1])

\* std::setfill(fill) << std::setw(w): pads on the left up to w, never truncates
RECURSIVE Pad(_, _, _)
Pad(s, w, fill) == IF Len(s) >= w THEN s ELSE Pad(<<fill>> \o s, w, fill)

----------------------------------------------------------------------------
(* uint32_t as two 16-bit halves *)

U32(hi, lo) == [hi |-> hi, lo |-> lo]

U32Zero == U32(0, 0)

\* c + 1 modulo 2^32
U32Inc(c) ==
    IF c.lo + 1 < UINT16_MOD THEN U32(c.hi, c.lo + 1)
    ELSE U32((c.hi + 1) % UINT16_MOD, 0)

\* c & 0xFFFF
U32Low16(c) == c.lo

\* c % m, for a small m
U32Mod(c, m) == (((c.hi % m) * (UINT16_MOD % m)) + (c.lo % m)) % m

\* c / 10 and c % 10 by long division over the halves
U32Div10(c) ==
    LET rest == ((c.hi % 10) * UINT16_MOD) + c.lo
    IN  [quot |-> U32(c.hi \div 10, rest \div 10), rem |-> rest % 10]

RECURSIVE U32Decimal(_)
U32Decimal(c) ==
    IF c.hi = 0 /\ c.lo < 10 THEN <<Digits[c.lo + 1]>>
    ELSE LET d == U32Div10(c)
         IN  Append(U32Decimal(d.quot), Digits[d.rem + 1])

----------------------------------------------------------------------------
(* std::stoi(str), base 10: skips leading white space, takes an optional    *)
(* sign and the longest run of digits, ignores what follows; throws         *)
(* std::invalid_argument when there is no digit and std::out_of_range when  *)
(* the value does not fit an int.                                           *)

RECURSIVE skip_space(_)
skip_space(s) ==
    IF s # <<>> /\ IsSpace(Head(s)) THEN skip_space(Tail(s)) ELSE s

RECURSIVE leading_digits(_)
leading_digits(s) ==
    IF s # <<>> /\ IsDigit(Head(s)) THEN <<Head(s)>> \o leading_digits(Tail(s))
    ELSE <<>>

\* The magnitude of a digit run, or -1 for exactly INT_MAX + 1, or -2 beyond it
RECURSIVE magnitude(_, _)
magnitude(digits, acc) ==
    IF digits = <<>> THEN acc
    ELSE LET d == DigitVal(Head(digits))
             next == IF acc < 0 THEN -2
                     ELSE IF acc > INT_MAX \div 10 THEN -2
                     ELSE IF acc = INT_MAX \div 10 /\ d = (INT_MAX % 10) + 1 THEN -1
                     ELSE IF acc = INT_MAX \div 10 /\ d > (INT_MAX % 10) + 1 THEN -2
                     ELSE (acc * 10) + d
         IN  magnitude(Tail(digits), next)

Parsed(v) == [ok |-> TRUE, value |-> v, what |-> "none"]
Thrown(what) == [ok |-> FALSE, value |-> 0, what |-> what]

stoi(str) ==
    LET s == skip_space(str)
        negative == s # <<>> /\ Head(s) = "-"
        signed == s # <<>> /\ Head(s) \in {"-", "+"}
        digits == leading_digits(IF signed THEN Tail(s) ELSE s)
        m == magnitude(digits, 0)
    IN  IF digits = <<>> THEN Thrown("invalid_argument")
        ELSE IF m >= 0 THEN Parsed(IF negative THEN -m ELSE m)
        ELSE IF m = -1 /\ negative THEN Parsed((-INT_MAX) - 1)
        ELSE Thrown("out_of_range")

----------------------------------------------------------------------------
(* SystemState *)

SystemState ==
    [running |-> FALSE,
     cycle_count |-> U32Zero,
     inputs |-> [i \in 0..(MAX_INPUTS - 1) |-> 0],
     outputs |-> [i \in 0..(MAX_OUTPUTS - 1) |-> 0],
     registers |-> [i \in 0..(MAX_REGISTERS - 1) |-> 0],
     error_codes |-> 0,
     last_error |-> <<>>]

load_control_program(st) ==
    [st EXCEPT !.registers =
        [st.registers EXCEPT ![0] = 100, ![1] = 50, ![2] = 1000, ![10] = 4660]]

\* uint8_t bit 0 set / cleared
SetBit0(e) == IF e % 2 = 1 THEN e ELSE e + 1
ClearBit0(e) == IF e % 2 = 1 THEN e - 1 ELSE e

\* conversion of an int to uint16_t
ToUint16(v) == v % UINT16_MOD

----------------------------------------------------------------------------
(* scan_inputs *)

\* rand() % 100, sampled at both ends
TempNoiseSamples == {0, 99}
\* rand() % 3 - 1
PressureWalkSteps == {-1, 0, 1}
\* sin(c * 0.1) * 2 + (rand() % 20 - 10) * 0.1, in tenths: within -30 .. 29
TempSimSteps == {-30, 29}
\* rand() % 6 - 3, sampled at both ends
PressureSimSteps == {-3, 2}

\* values of the hardware build's pressure_base at which its walk is picked
\* up: the initial 500, and 0, which the walk can have reached after 500
\* cycles; the walk is followed MaxDrift to either side of them
DriftOrigins == {500, 0}

InDriftBand(base) ==
    \E origin \in DriftOrigins :
        base \in (origin - MaxDrift)..(origin + MaxDrift)

Clamp(v, lo, hi) == IF v < lo THEN lo ELSE IF v > hi THEN hi ELSE v

CycleInput(c) == IF U32Mod(c, 200) < 100 THEN 1 ELSE 0

\* a hardware build whose sensor reads degrees, the unit of the setpoint,
\* instead of tenths of a degree
scan_inputs_hardware_Degrees(st, noise, base) ==
    [st EXCEPT !.inputs =
        [st.inputs EXCEPT ![0] = 75 + (noise \div 10),
                          ![1] = CycleInput(st.cycle_count),
                          ![2] = 1,
                          ![3] = ToUint16(base)]]

\* hardware builds; noise = rand() % 100, base = pressure_base after its step
scan_inputs_hardware(st, noise, base) ==
    [st EXCEPT !.inputs =
        [st.inputs EXCEPT ![0] = 750 + noise,
                          ![1] = CycleInput(st.cycle_count),
                          ![2] = 1,
                          ![3] = ToUint16(base)]]

\* virtual build; temp in tenths and pressure after their steps and clamps
scan_inputs_virtual(st, temp, pressure, stop) ==
    [st EXCEPT !.inputs =
        [st.inputs EXCEPT ![0] = temp \div 10,
                          ![3] = pressure,
                          ![1] = CycleInput(st.cycle_count),
                          ![2] = IF stop THEN 0 ELSE 1]]

----------------------------------------------------------------------------
(* execute_control_logic and update_outputs *)

\* Rung 2 without Rung 1: the heater follows the temperature alone
Rung2_IgnoresRunEnable(st) ==
    IF st.inputs[0] < st.registers[0]
    THEN [st EXCEPT !.outputs[0] = 1]
    ELSE [st EXCEPT !.outputs[0] = 0]

Rung2(st) ==
    IF st.inputs[2] = 1 /\ st.inputs[0] < st.registers[0]
    THEN [st EXCEPT !.outputs[0] = 1]
    ELSE [st EXCEPT !.outputs[0] = 0]

\* Rung 3 that forgets the error bit when it raises the alarm
Rung3_NoErrorBit(st) ==
    IF st.inputs[0] > st.registers[1]
    THEN [st EXCEPT !.outputs[1] = 1]
    ELSE [st EXCEPT !.outputs[1] = 0, !.error_codes = ClearBit0(st.error_codes)]

\* Rung 3 that raises the alarm at the threshold already
Rung3_AtThreshold(st) ==
    IF st.inputs[0] >= st.registers[1]
    THEN [st EXCEPT !.outputs[1] = 1, !.error_codes = SetBit0(st.error_codes)]
    ELSE [st EXCEPT !.outputs[1] = 0, !.error_codes = ClearBit0(st.error_codes)]

Rung3(st) ==
    IF st.inputs[0] > st.registers[1]
    THEN [st EXCEPT !.outputs[1] = 1, !.error_codes = SetBit0(st.error_codes)]
    ELSE [st EXCEPT !.outputs[1] = 0, !.error_codes = ClearBit0(st.error_codes)]

\* Rung 4 that publishes the counter of the next cycle
Rung4_NextCount(st) ==
    [st EXCEPT !.registers[20] = U32Low16(U32Inc(st.cycle_count))]

Rung4(st) == [st EXCEPT !.registers[20] = U32Low16(st.cycle_count)]

Rung5(st) ==
    [st EXCEPT !.outputs[15] = IF U32Mod(st.cycle_count, 10) < 5 THEN 1 ELSE 0]

\* a control program without Rung 4
execute_control_logic_NoRung4(st) == Rung5(Rung3(Rung2(st)))

execute_control_logic(st) == Rung5(Rung4(Rung3(Rung2(st))))

\* an output commit that leaves the two mirror registers as they were
update_outputs_NoMirror(st) == st

update_outputs(st) ==
    [st EXCEPT !.registers[100] = st.inputs[0],
               !.registers[101] = st.outputs[0]]

----------------------------------------------------------------------------
(* get_timestamp: the wall clock as YYYY-MM-DD HH:MM:SS, two sample readings *)

Timestamps ==
    {<<"2", "0", "2", "4", "-", "0", "1", "-", "0", "1", " ",
       "0", "0", ":", "0", "0", ":", "0", "0">>,
     <<"2", "0", "2", "4", "-", "1", "2", "-", "3", "1", " ",
       "2", "3", ":", "5", "9", ":", "5", "9">>}

----------------------------------------------------------------------------
(* process_legacy_command *)

CRLF == <<CR, LF>>
ERR0 == <<"E", "R", "R", "0">>
ERR1 == <<"E", "R", "R", "1">>

NoRead == [array |-> "none", index |-> 0]

Replied(text, read) ==
    [threw |-> FALSE, what |-> "none", response |-> text \o CRLF, read |-> read]

\* an exception leaves process_legacy_command: nothing is returned
Raised(what) ==
    [threw |-> TRUE, what |-> what, response |-> <<>>, read |-> NoRead]

\* the address test of the RI / RO / RR branches
InBounds(addr, size) == addr >= 0 /\ addr < size

\* a branch whose address test is addr <= size, without the test for negatives;
\* a cell outside the array reads as whatever lies next to it, here 0
ReadBranch_LooseBounds(command, array, cells, size) ==
    LET addr == stoi(substr_from(command, 2))
    IN  IF ~addr.ok THEN Raised(addr.what)
        ELSE IF addr.value <= size
        THEN Replied(Pad(Decimal(IF addr.value \in DOMAIN cells
                                 THEN cells[addr.value] ELSE 0), 4, "0"),
                     [array |-> array, index |-> addr.value])
        ELSE Replied(ERR1, NoRead)

\* one RI / RO / RR branch: array is the name of cells, size its length
ReadBranch(command, array, cells, size) ==
    LET addr == stoi(substr_from(command, 2))
    IN  IF ~addr.ok THEN Raised(addr.what)
        ELSE IF InBounds(addr.value, size)
        THEN Replied(Pad(Decimal(cells[addr.value]), 4, "0"),
                     [array |-> array, index |-> addr.value])
        ELSE Replied(ERR1, NoRead)

StatusBranch(st, timestamp) ==
    Replied(<<"R", "U", "N", ",">>
                \o Pad(U32Decimal(st.cycle_count), 8, "0")
                \o <<",">>
                \o Pad(Hexadecimal(st.error_codes), 2, "0")
                \o <<",">>
                \o timestamp,
            NoRead)

process_legacy_command(st, command, timestamp) ==
    IF substr(command, 0, 2) = <<"R", "I">>
    THEN ReadBranch(command, "inputs", st.inputs, MAX_INPUTS)
    ELSE IF substr(command, 0, 2) = <<"R", "O">>
    THEN ReadBranch(command, "outputs", st.outputs, MAX_OUTPUTS)
    ELSE IF substr(command, 0, 2) = <<"R", "R">>
    THEN ReadBranch(command, "registers", st.registers, MAX_REGISTERS)
    ELSE IF substr(command, 0, 6) = <<"S", "T", "A", "T", "U", "S">>
    THEN StatusBranch(st, timestamp)
    ELSE Replied(ERR0, NoRead)

----------------------------------------------------------------------------
(* process_http_request: the values the JSON document carries *)

process_http_request(st, timestamp) ==
    [uptime_cycles |-> U32Decimal(st.cycle_count),
     status |-> IF st.running THEN "RUNNING" ELSE "STOPPED",
     scan_rate_ms |-> Decimal(CYCLE_TIME_MS),
     error_codes |-> <<"0", "x">> \o Hexadecimal(st.error_codes),
     last_error |-> st.last_error,
     temperature_raw |-> Decimal(st.inputs[0]),
     cycle_input |-> Decimal(st.inputs[1]),
     run_enable |-> Decimal(st.inputs[2]),
     pressure_raw |-> Decimal(st.inputs[3]),
     heater_command |-> Decimal(st.outputs[0]),
     high_temp_alarm |-> Decimal(st.outputs[1]),
     heartbeat_led |-> Decimal(st.outputs[15]),
     temperature_setpoint |-> Decimal(st.registers[0]),
     alarm_threshold |-> Decimal(st.registers[1]),
     current_temperature |-> Decimal(st.registers[100]),
     heater_status |-> Decimal(st.registers[101]),
     timestamp |-> timestamp]

----------------------------------------------------------------------------
(* The environment: clients of the two protocols, the operator, the clock *)

\* the clients of the network
Clients == {"c1", "c2"}

\* what a control client has sent by the time the server reads
ControlPayloads ==
    {<<>>,
     <<"R", "I", "0">>,
     <<"R", "I", "1", "6">>,
     <<"R", "I", "-", "1">>,
     <<"R", "I", "a", "b", "c">>,
     <<"R", "I">>,
     <<"R", "I", "5", "x">>,
     <<"R", "I", " ", "5">>,
     <<"R", "I", "+", "5">>,
     <<"r", "i", "0">>,
     <<"R", "O", "1">>,
     <<"R", "O", "1", "6">>,
     <<"R", "O", "-", "1">>,
     <<"R", "O", "?">>,
     <<"R", "R", "1">>,
     <<"R", "R", "2", "0">>,
     <<"R", "R", "2", "0", CR, LF>>,
     <<"R", "R", "2", "5", "6">>,
     <<"R", "R", "-", "1">>,
     <<"R", "R", "9", "9", "9", "9", "9", "9", "9", "9", "9", "9", "9">>,
     <<"S", "T", "A", "T", "U", "S">>,
     <<"S", "T", "A", "T", "U", "S", CR, LF>>,
     <<"S", "T", "A", "T", "U", "S", "X">>,
     <<"H", "E", "L", "L", "O">>,
     <<"R">>,
     <<"H", "I", NUL, "R", "I", "0">>}

\* what a management client has sent by the time the server reads
ManagementPayloads ==
    {<<>>, <<"G", "E", "T", " ", "/">>}

\* ms between two readings of the steady clock by consecutive ticks
TickDeltas == {99, 100, 250}

NoControlIO ==
    [accept |-> "none", client |-> "none", accepted |-> FALSE, received |-> <<>>, command |-> <<>>, threw |-> FALSE,
     sent |-> FALSE, response |-> <<>>, read |-> NoRead, closed |-> FALSE]

NoManagementIO ==
    [accept |-> "none", client |-> "none", accepted |-> FALSE, received |-> <<>>, sent |-> FALSE,
     response |-> <<>>, closed |-> FALSE]

\* log_cycle_data has appended nothing
NoRow ==
    [cycle |-> <<>>, inputs |-> [i \in 0..3 |-> <<>>],
     outputs |-> [i \in 0..3 |-> <<>>], err |-> <<>>]

\* recv(fd, buffer, size - 1, MSG_DONTWAIT): at most size - 1 of the bytes waiting
recv(bytes, size) == SubSeq(bytes, 1, Min(Len(bytes), size - 1))

----------------------------------------------------------------------------
(* initialize_system: the state when the constructor returns *)

Constructed(st) == [load_control_program(st) EXCEPT !.running = TRUE]

Init ==
    /\ state = Constructed(SystemState)
    /\ server_socket \in {"none", "unbound", "listening"}
    /\ mgmt_socket \in {"none", "listening"}
    /\ log_file \in {[is_open |-> o, hex |-> FALSE, rows |-> 0, written |-> NoRow] : o \in BOOLEAN}
    /\ virtual_hardware \in BOOLEAN
    /\ stop_file = FALSE
    /\ last_cycle = 0
    /\ now = 0
    /\ temp_simulation = 7500
    /\ pressure_simulation = 500
    /\ pressure_base = 500
    /\ ctrl_queue = <<>>
    /\ mgmt_queue = <<>>
    /\ ctrl_io = NoControlIO
    /\ mgmt_io = NoManagementIO
    /\ tick_log = <<0, 0>>
    /\ evaluated = FALSE
    /\ pc = "idle"

----------------------------------------------------------------------------
(* run_scan_cycle, one action per phase *)

\* the test that decides whether a tick runs the cycle body
CycleDue(elapsed) == elapsed >= CYCLE_TIME_MS

\* a scheduler that makes up for lost time: the next cycle is due one period
\* after the last one was due
NextLastCycle_CatchUp(last, t) == last + CYCLE_TIME_MS

\* last_cycle after an executed cycle whose tick read the clock at t
NextLastCycle(last, t) == t

\* main's loop calls run_scan_cycle: the clock is read and the period tested
Tick ==
    /\ pc = "idle"
    /\ state.running
    /\ \E d \in TickDeltas :
        /\ now + d <= MaxTime
        /\ now' = now + d
    /\ IF CycleDue(now' - last_cycle)
       THEN /\ pc' = "scan_inputs"
            /\ tick_log' = <<tick_log[2], now'>>
       ELSE /\ pc' = "idle"
            /\ UNCHANGED tick_log
    /\ UNCHANGED <<state, server_socket, mgmt_socket, last_cycle, log_file,
                   temp_simulation, pressure_simulation, pressure_base,
                   virtual_hardware, stop_file, ctrl_queue, mgmt_queue,
                   ctrl_io, mgmt_io, evaluated>>

ScanInputsHardware ==
    /\ pc = "scan_inputs"
    /\ ~virtual_hardware
    /\ \E noise \in TempNoiseSamples, step \in PressureWalkSteps :
        /\ InDriftBand(pressure_base + step)
        /\ pressure_base' = pressure_base + step
        /\ state' = scan_inputs_hardware(state, noise, pressure_base')
    /\ pc' = "execute_control_logic"
    /\ UNCHANGED <<server_socket, mgmt_socket, last_cycle, now, log_file,
                   temp_simulation, pressure_simulation, virtual_hardware,
                   stop_file, ctrl_queue, mgmt_queue, ctrl_io, mgmt_io,
                   tick_log, evaluated>>

ScanInputsVirtual ==
    /\ pc = "scan_inputs"
    /\ virtual_hardware
    /\ \E dt \in TempSimSteps, dp \in PressureSimSteps :
        /\ temp_simulation' = Clamp(temp_simulation + dt, 6000, 9000)
        /\ pressure_simulation' = Clamp(pressure_simulation + dp, 400, 600)
        /\ state' = scan_inputs_virtual(state, temp_simulation',
                                        pressure_simulation', stop_file)
    /\ pc' = "execute_control_logic"
    /\ UNCHANGED <<server_socket, mgmt_socket, last_cycle, now, log_file,
                   pressure_base, virtual_hardware, stop_file, ctrl_queue,
                   mgmt_queue, ctrl_io, mgmt_io, tick_log, evaluated>>

ExecuteControlLogic ==
    /\ pc = "execute_control_logic"
    /\ state' = execute_control_logic(state)
    /\ evaluated' = TRUE
    /\ pc' = "update_outputs"
    /\ UNCHANGED <<server_socket, mgmt_socket, last_cycle, now, log_file,
                   temp_simulation, pressure_simulation, pressure_base,
                   virtual_hardware, stop_file, ctrl_queue, mgmt_queue,
                   ctrl_io, mgmt_io, tick_log>>

UpdateOutputs ==
    /\ pc = "update_outputs"
    /\ state' = update_outputs(state)
    /\ pc' = "handle_control_connections"
    /\ UNCHANGED <<server_socket, mgmt_socket, last_cycle, now, log_file,
                   temp_simulation, pressure_simulation, pressure_base,
                   virtual_hardware, stop_file, ctrl_queue, mgmt_queue,
                   ctrl_io, mgmt_io, tick_log, evaluated>>

----------------------------------------------------------------------------
(* handle_control_connections *)

\* accept() gives no client: no usable listening socket, or nobody waiting
ControlNothingToAccept ==
    /\ pc = "handle_control_connections"
    /\ server_socket # "listening" \/ ctrl_queue = <<>>
    /\ ctrl_io' = NoControlIO
    /\ pc' = "handle_management_connections"
    /\ UNCHANGED <<state, server_socket, mgmt_socket, last_cycle, now, log_file,
                   temp_simulation, pressure_simulation, pressure_base,
                   virtual_hardware, stop_file, ctrl_queue, mgmt_queue,
                   mgmt_io, tick_log, evaluated>>

\* accept() fails although a client waits (EMFILE, ENOBUFS, ...): it keeps waiting
ControlAcceptFails ==
    /\ pc = "handle_control_connections"
    /\ server_socket = "listening"
    /\ ctrl_queue # <<>>
    /\ ctrl_io' = [NoControlIO EXCEPT !.accept = "error"]
    /\ pc' = "handle_management_connections"
    /\ UNCHANGED <<state, server_socket, mgmt_socket, last_cycle, now, log_file,
                   temp_simulation, pressure_simulation, pressure_base,
                   virtual_hardware, stop_file, ctrl_queue, mgmt_queue,
                   mgmt_io, tick_log, evaluated>>

\* what the handler does with an accepted client that has sent `sent_bytes`
ControlExchange(st, client, sent_bytes, timestamp) ==
    LET bytes == recv(sent_bytes, CTRL_BUFFER_SIZE)
        command == string_from_buffer(bytes)
        result == process_legacy_command(st, command, timestamp)
    IN  IF Len(bytes) > 0
        THEN IF result.threw
             THEN [accept |-> "ok", client |-> client, accepted |-> TRUE, received |-> bytes,
                   command |-> command, threw |-> TRUE, sent |-> FALSE,
                   response |-> <<>>, read |-> NoRead, closed |-> FALSE]
             ELSE [accept |-> "ok", client |-> client, accepted |-> TRUE, received |-> bytes,
                   command |-> command, threw |-> FALSE, sent |-> TRUE,
                   response |-> result.response, read |-> result.read,
                   closed |-> TRUE]
        ELSE [accept |-> "ok", client |-> client, accepted |-> TRUE, received |-> <<>>,
              command |-> <<>>, threw |-> FALSE, sent |-> FALSE,
              response |-> <<>>, read |-> NoRead, closed |-> TRUE]

\* a handler whose STATUS command acknowledges the alarm: answering it
\* clears error_codes
ControlServe_StatusAcknowledges ==
    /\ pc = "handle_control_connections"
    /\ server_socket = "listening"
    /\ ctrl_queue # <<>>
    /\ \E bytes \in ControlPayloads, timestamp \in Timestamps :
        ctrl_io' = ControlExchange(state, Head(ctrl_queue), bytes, timestamp)
    /\ ctrl_queue' = Tail(ctrl_queue)
    /\ pc' = IF ctrl_io'.threw THEN "terminated"
             ELSE "handle_management_connections"
    /\ state' = IF substr(ctrl_io'.command, 0, 6) = <<"S", "T", "A", "T", "U", "S">>
                THEN [state EXCEPT !.error_codes = 0]
                ELSE state
    /\ UNCHANGED <<server_socket, mgmt_socket, last_cycle, now, log_file,
                   temp_simulation, pressure_simulation, pressure_base,
                   virtual_hardware, stop_file, mgmt_queue, mgmt_io, tick_log,
                   evaluated>>

\* accept() gives the first waiting client; an exception that leaves
\* process_legacy_command is caught nowhere, so std::terminate ends the process
ControlServe ==
    /\ pc = "handle_control_connections"
    /\ server_socket = "listening"
    /\ ctrl_queue # <<>>
    /\ \E bytes \in ControlPayloads, timestamp \in Timestamps :
        ctrl_io' = ControlExchange(state, Head(ctrl_queue), bytes, timestamp)
    /\ ctrl_queue' = Tail(ctrl_queue)
    /\ pc' = IF ctrl_io'.threw THEN "terminated"
             ELSE "handle_management_connections"
    /\ UNCHANGED <<state, server_socket, mgmt_socket, last_cycle, now, log_file,
                   temp_simulation, pressure_simulation, pressure_base,
                   virtual_hardware, stop_file, mgmt_queue, mgmt_io, tick_log,
                   evaluated>>

----------------------------------------------------------------------------
(* handle_management_connections *)

ManagementNothingToAccept ==
    /\ pc = "handle_management_connections"
    /\ mgmt_socket # "listening" \/ mgmt_queue = <<>>
    /\ mgmt_io' = NoManagementIO
    /\ pc' = "log_cycle_data"
    /\ UNCHANGED <<state, server_socket, mgmt_socket, last_cycle, now, log_file,
                   temp_simulation, pressure_simulation, pressure_base,
                   virtual_hardware, stop_file, ctrl_queue, mgmt_queue,
                   ctrl_io, tick_log, evaluated>>

ManagementAcceptFails ==
    /\ pc = "handle_management_connections"
    /\ mgmt_socket = "listening"
    /\ mgmt_queue # <<>>
    /\ mgmt_io' = [NoManagementIO EXCEPT !.accept = "error"]
    /\ pc' = "log_cycle_data"
    /\ UNCHANGED <<state, server_socket, mgmt_socket, last_cycle, now, log_file,
                   temp_simulation, pressure_simulation, pressure_base,
                   virtual_hardware, stop_file, ctrl_queue, mgmt_queue,
                   ctrl_io, tick_log, evaluated>>

ManagementExchange(st, client, sent_bytes, timestamp) ==
    LET bytes == recv(sent_bytes, MGMT_BUFFER_SIZE)
    IN  IF Len(bytes) > 0
        THEN [accept |-> "ok", client |-> client, accepted |-> TRUE, received |-> bytes,
              sent |-> TRUE, response |-> process_http_request(st, timestamp),
              closed |-> TRUE]
        ELSE [accept |-> "ok", client |-> client, accepted |-> TRUE, received |-> <<>>,
              sent |-> FALSE, response |-> <<>>, closed |-> TRUE]

ManagementServe ==
    /\ pc = "handle_management_connections"
    /\ mgmt_socket = "listening"
    /\ mgmt_queue # <<>>
    /\ \E bytes \in ManagementPayloads, timestamp \in Timestamps :
        mgmt_io' = ManagementExchange(state, Head(mgmt_queue), bytes, timestamp)
    /\ mgmt_queue' = Tail(mgmt_queue)
    /\ pc' = "log_cycle_data"
    /\ UNCHANGED <<state, server_socket, mgmt_socket, last_cycle, now, log_file,
                   temp_simulation, pressure_simulation, pressure_base,
                   virtual_hardware, stop_file, ctrl_queue, ctrl_io, tick_log,
                   evaluated>>

----------------------------------------------------------------------------
(* log_cycle_data and the end of run_scan_cycle's body *)

\* whether this cycle writes a row
LogDue(log, st) == log.is_open /\ U32Mod(st.cycle_count, 10) = 0

\* operator<< of a uint32_t under std::hex
U32Hexadecimal(c) ==
    IF c.hi = 0 THEN Hexadecimal(c.lo)
    ELSE Hexadecimal(c.hi) \o Pad(Hexadecimal(c.lo), 4, "0")

\* operator<< of a uint16_t on a stream whose basefield is hex or dec
Number(hex, n) == IF hex THEN Hexadecimal(n) ELSE Decimal(n)

\* the fields of a row after the timestamp, as the stream in its present
\* state renders them; std::hex is inserted before the last field only
log_row(log, st) ==
    [cycle |-> IF log.hex THEN U32Hexadecimal(st.cycle_count)
               ELSE U32Decimal(st.cycle_count),
     inputs |-> [i \in 0..3 |-> Number(log.hex, st.inputs[i])],
     outputs |-> [i \in 0..3 |-> Number(log.hex, st.outputs[i])],
     err |-> Hexadecimal(st.error_codes)]

\* the stream after log_cycle_data: a row leaves std::hex set on it; written
\* is what this call appended, observed until the cycle body ends
log_cycle_data(log, st) ==
    IF LogDue(log, st)
    THEN [log EXCEPT !.hex = TRUE, !.rows = log.rows + 1,
                     !.written = log_row(log, st)]
    ELSE [log EXCEPT !.written = NoRow]

\* the network phase is over: the observers of its two exchanges are reset
LogCycleData ==
    /\ pc = "log_cycle_data"
    /\ log_file' = log_cycle_data(log_file, state)
    /\ ctrl_io' = NoControlIO
    /\ mgmt_io' = NoManagementIO
    /\ pc' = "end_of_cycle"
    /\ UNCHANGED <<state, server_socket, mgmt_socket, last_cycle, now,
                   temp_simulation, pressure_simulation, pressure_base,
                   virtual_hardware, stop_file, ctrl_queue, mgmt_queue,
                   tick_log, evaluated>>

\* a counter that stops at its largest value instead of wrapping
IncrementCycleCount_Saturating(st) ==
    IF st.cycle_count = U32(UINT16_MOD - 1, UINT16_MOD - 1)
    THEN st
    ELSE [st EXCEPT !.cycle_count = U32Inc(st.cycle_count)]

\* state.cycle_count++
IncrementCycleCount(st) == [st EXCEPT !.cycle_count = U32Inc(st.cycle_count)]

\* cycle_count++, last_cycle = now, display_status (which changes no state)
EndOfCycle ==
    /\ pc = "end_of_cycle"
    /\ state' = IncrementCycleCount(state)
    /\ last_cycle' = NextLastCycle(last_cycle, now)
    /\ log_file' = [log_file EXCEPT !.written = NoRow]
    /\ pc' = "idle"
    /\ UNCHANGED <<server_socket, mgmt_socket, now, temp_simulation,
                   pressure_simulation, pressure_base, virtual_hardware,
                   stop_file, ctrl_queue, mgmt_queue, ctrl_io, mgmt_io,
                   tick_log, evaluated>>

----------------------------------------------------------------------------
(* Environment actions.  The program looks at a listen queue only in accept() *)
(* and at the stop file only in scan_inputs, so an arrival or a change during  *)
(* a cycle body is the same to it as one between ticks: they are taken there.  *)

ControlClientConnects ==
    /\ pc = "idle"
    /\ server_socket = "listening"
    /\ Len(ctrl_queue) < MaxPending
    /\ \E c \in Clients :
        /\ \A i \in 1..Len(ctrl_queue) : ctrl_queue[i] # c
        /\ ctrl_queue' = Append(ctrl_queue, c)
    /\ UNCHANGED <<state, server_socket, mgmt_socket, last_cycle, now, log_file,
                   temp_simulation, pressure_simulation, pressure_base,
                   virtual_hardware, stop_file, mgmt_queue, ctrl_io, mgmt_io,
                   tick_log, evaluated, pc>>

ManagementClientConnects ==
    /\ pc = "idle"
    /\ mgmt_socket = "listening"
    /\ Len(mgmt_queue) < MaxPending
    /\ \E c \in Clients :
        /\ \A i \in 1..Len(mgmt_queue) : mgmt_queue[i] # c
        /\ mgmt_queue' = Append(mgmt_queue, c)
    /\ UNCHANGED <<state, server_socket, mgmt_socket, last_cycle, now, log_file,
                   temp_simulation, pressure_simulation, pressure_base,
                   virtual_hardware, stop_file, ctrl_queue, ctrl_io, mgmt_io,
                   tick_log, evaluated, pc>>

\* the operator creates or removes /tmp/plc_stop (read by the virtual build only)
OperatorTogglesStopFile ==
    /\ pc = "idle"
    /\ virtual_hardware
    /\ stop_file' = ~stop_file
    /\ UNCHANGED <<state, server_socket, mgmt_socket, last_cycle, now, log_file,
                   temp_simulation, pressure_simulation, pressure_base,
                   virtual_hardware, ctrl_queue, mgmt_queue, ctrl_io, mgmt_io,
                   tick_log, evaluated, pc>>

Next ==
    \/ Tick
    \/ ScanInputsHardware
    \/ ScanInputsVirtual
    \/ ExecuteControlLogic
    \/ UpdateOutputs
    \/ ControlNothingToAccept
    \/ ControlAcceptFails
    \/ ControlServe
    \/ ManagementNothingToAccept
    \/ ManagementAcceptFails
    \/ ManagementServe
    \/ LogCycleData
    \/ EndOfCycle
    \/ ControlClientConnects
    \/ ManagementClientConnects
    \/ OperatorTogglesStopFile

Spec == Init /\ [][Next]_vars

----------------------------------------------------------------------------
(* A system that has been running for some time.  AfterCycle(c, ...) is the  *)
(* state between two ticks when the last executed cycle ran with cycle       *)
(* counter c: the cycle body applied to a state carrying that counter.  The  *)
(* cells a cycle does not write keep their values from construction.  The    *)
(* steady clock is read relative to one period before that cycle's tick.     *)

\* counters of the last executed cycle: just below 10^4, 2^16, 10^8 and 2^32
AgedCounters ==
    {U32(0, 9998), U32(0, 65534), U32(1525, 57598), U32(65535, 65534)}

AtCounter(c) == [Constructed(SystemState) EXCEPT !.cycle_count = c]

CycleBody(sampled) ==
    IncrementCycleCount(update_outputs(execute_control_logic(sampled)))

AgedInit ==
    /\ virtual_hardware \in BOOLEAN
    /\ \E c \in AgedCounters :
        state = IF virtual_hardware
                THEN CycleBody(scan_inputs_virtual(AtCounter(c), 7500, 500, FALSE))
                ELSE CycleBody(scan_inputs_hardware(AtCounter(c), 0, 500))
    /\ server_socket = "listening"
    /\ mgmt_socket = "listening"
    /\ log_file = [is_open |-> TRUE, hex |-> TRUE, rows |-> 0, written |-> NoRow]
    /\ stop_file = FALSE
    /\ last_cycle = CYCLE_TIME_MS
    /\ now = CYCLE_TIME_MS
    /\ temp_simulation = 7500
    /\ pressure_simulation = 500
    /\ pressure_base = 500
    /\ ctrl_queue = <<>>
    /\ mgmt_queue = <<>>
    /\ ctrl_io = NoControlIO
    /\ mgmt_io = NoManagementIO
    /\ tick_log = <<0, CYCLE_TIME_MS>>
    /\ evaluated = TRUE
    /\ pc = "idle"

SpecAged == AgedInit /\ [][Next]_vars

----------------------------------------------------------------------------
(* A run of executed cycles in which no client connects: the hardware build  *)
(* with its log open, every tick exactly one period after the last, so that  *)
(* now / CYCLE_TIME_MS counts the cycles of the run.                         *)

\* counters of the last executed cycle before the run: 4, 9 and, below 2^32,
\* 2^32 - 101 (the run ends on the last count before the wrap) and 2^32 - 7
\* (the run crosses the wrap)
QuietCounters ==
    {U32(0, 4), U32(0, 9), U32(65535, 65435), U32(65535, 65529)}

QuietInit ==
    /\ virtual_hardware = FALSE
    /\ \/ state = Constructed(SystemState) /\ evaluated = FALSE
       \/ /\ \E c \in QuietCounters :
               state = CycleBody(scan_inputs_hardware(AtCounter(c), 0, 500))
          /\ evaluated = TRUE
    /\ server_socket = "listening"
    /\ mgmt_socket = "listening"
    /\ log_file = [is_open |-> TRUE, hex |-> evaluated, rows |-> 0, written |-> NoRow]
    /\ stop_file = FALSE
    /\ last_cycle = 0
    /\ now = 0
    /\ temp_simulation = 7500
    /\ pressure_simulation = 500
    /\ pressure_base = 500
    /\ ctrl_queue = <<>>
    /\ mgmt_queue = <<>>
    /\ ctrl_io = NoControlIO
    /\ mgmt_io = NoManagementIO
    /\ tick_log = <<0, 0>>
    /\ pc = "idle"

\* one tick that runs the whole cycle body, both accepts finding nobody
QuietCycle ==
    /\ pc = "idle"
    /\ state.running
    /\ ~virtual_hardware
    /\ ctrl_queue = <<>> /\ mgmt_queue = <<>>
    /\ now < QuietCycles * CYCLE_TIME_MS
    /\ now' = now + CYCLE_TIME_MS
    /\ CycleDue(now' - last_cycle)
    /\ tick_log' = <<tick_log[2], now'>>
    /\ \E noise \in TempNoiseSamples, step \in PressureWalkSteps :
        /\ InDriftBand(pressure_base + step)
        /\ pressure_base' = pressure_base + step
        /\ LET sampled == scan_inputs_hardware(state, noise, pressure_base')
               committed == update_outputs(execute_control_logic(sampled))
           IN  /\ log_file' = [log_cycle_data(log_file, committed)
                                  EXCEPT !.written = NoRow]
               /\ state' = IncrementCycleCount(committed)
    /\ evaluated' = TRUE
    /\ ctrl_io' = NoControlIO
    /\ mgmt_io' = NoManagementIO
    /\ last_cycle' = NextLastCycle(last_cycle, now')
    /\ UNCHANGED <<server_socket, mgmt_socket, temp_simulation,
                   pressure_simulation, virtual_hardware, stop_file,
                   ctrl_queue, mgmt_queue, pc>>

QuietNext == QuietCycle

SpecQuiet == QuietInit /\ [][QuietNext]_vars

----------------------------------------------------------------------------
(* The control program as a function of what a cycle sampled.  The built-in  *)
(* sensor simulations only give temperatures of 600 and more, which leaves   *)
(* one side of Rung 2 and of Rung 3 unused; here the cycle starts after the  *)
(* sampling, with the temperature and the run enable drawn from samples on   *)
(* both sides of the setpoint (100) and of the alarm threshold (50).         *)

SampledTemperatures == {0, 49, 50, 51, 90, 99, 100, 101, 200, 750}

SampledRunEnables == {0, 1}

\* the state scan_inputs leaves when the sensors read temp and run
SampledInputs(st, temp, run) ==
    [st EXCEPT !.inputs =
        [st.inputs EXCEPT ![0] = temp,
                          ![1] = CycleInput(st.cycle_count),
                          ![2] = run,
                          ![3] = 500]]

\* the first cycle, or the one after a cycle that raised the alarm
LogicInit ==
    /\ virtual_hardware = FALSE
    /\ \E temp \in SampledTemperatures, run \in SampledRunEnables :
        \/ /\ state = SampledInputs(Constructed(SystemState), temp, run)
           /\ evaluated = FALSE
        \/ /\ state = SampledInputs(
                          CycleBody(scan_inputs_hardware(
                                        Constructed(SystemState), 0, 500)),
                          temp, run)
           /\ evaluated = TRUE
    /\ server_socket = "listening"
    /\ mgmt_socket = "listening"
    /\ log_file = [is_open |-> TRUE, hex |-> evaluated, rows |-> IF evaluated THEN 1 ELSE 0, written |-> NoRow]
    /\ stop_file = FALSE
    /\ last_cycle = 0
    /\ now = CYCLE_TIME_MS
    /\ temp_simulation = 7500
    /\ pressure_simulation = 500
    /\ pressure_base = 500
    /\ ctrl_queue \in {<<>>, <<"c1">>}
    /\ mgmt_queue = <<>>
    /\ ctrl_io = NoControlIO
    /\ mgmt_io = NoManagementIO
    /\ tick_log = <<0, CYCLE_TIME_MS>>
    /\ pc = "execute_control_logic"

\* the cycle from the evaluation to the end of the control service
LogicNext ==
    \/ ExecuteControlLogic
    \/ UpdateOutputs
    \/ ControlNothingToAccept
    \/ ControlAcceptFails
    \/ ControlServe

SpecLogic == LogicInit /\ [][LogicNext]_vars

----------------------------------------------------------------------------
(* Two clients on each endpoint that connected while the constructor was     *)
(* still loading the control program: listen() has been called by then, so   *)
(* both connections wait in the listen queues when the first cycle runs.     *)
(* They connect this once; the clients of Clients come and go as before.     *)

StartupClients == <<"s1", "s2">>

BacklogInit ==
    /\ state = Constructed(SystemState)
    /\ server_socket = "listening"
    /\ mgmt_socket = "listening"
    /\ log_file = [is_open |-> TRUE, hex |-> FALSE, rows |-> 0, written |-> NoRow]
    /\ virtual_hardware \in BOOLEAN
    /\ stop_file = FALSE
    /\ last_cycle = 0
    /\ now = 0
    /\ temp_simulation = 7500
    /\ pressure_simulation = 500
    /\ pressure_base = 500
    /\ ctrl_queue = StartupClients
    /\ mgmt_queue = StartupClients
    /\ ctrl_io = NoControlIO
    /\ mgmt_io = NoManagementIO
    /\ tick_log = <<0, 0>>
    /\ evaluated = FALSE
    /\ pc = "idle"

SpecBacklog == BacklogInit /\ [][Next]_vars

----------------------------------------------------------------------------
(* The whole life of the cycle counter: an instance whose constructor has    *)
(* just returned with both endpoints bound and the log open, or one that has *)
(* been running for some time.                                               *)

LifeInit ==
    \/ /\ Init
       /\ server_socket = "listening"
       /\ mgmt_socket = "listening"
       /\ log_file.is_open
    \/ AgedInit

SpecLife == LifeInit /\ [][Next]_vars

----------------------------------------------------------------------------
(* A hardware build that has run long enough for the random walk of          *)
(* pressure_base to have come down from 500 to 0: the last cycle sampled 0.  *)
(* The run goes on without clients, as in SpecQuiet.                         *)

DriftInit ==
    /\ virtual_hardware = FALSE
    /\ \E c \in AgedCounters :
        state = CycleBody(scan_inputs_hardware(AtCounter(c), 0, 0))
    /\ evaluated = TRUE
    /\ server_socket = "listening"
    /\ mgmt_socket = "listening"
    /\ log_file = [is_open |-> TRUE, hex |-> TRUE, rows |-> 0, written |-> NoRow]
    /\ stop_file = FALSE
    /\ last_cycle = 0
    /\ now = 0
    /\ temp_simulation = 7500
    /\ pressure_simulation = 500
    /\ pressure_base = 0
    /\ ctrl_queue = <<>>
    /\ mgmt_queue = <<>>
    /\ ctrl_io = NoControlIO
    /\ mgmt_io = NoManagementIO
    /\ tick_log = <<0, 0>>
    /\ pc = "idle"

SpecDrift == DriftInit /\ [][QuietNext]_vars

----------------------------------------------------------------------------
(* Properties *)

BeforeEvaluation == {"idle", "scan_inputs", "execute_control_logic"}

AfterEvaluation ==
    {"update_outputs", "handle_control_connections",
     "handle_management_connections", "log_cycle_data", "end_of_cycle",
     "terminated"}

CycleBodyPositions ==
    {"scan_inputs", "execute_control_logic", "update_outputs",
     "handle_control_connections", "handle_management_connections",
     "log_cycle_data", "end_of_cycle"}

\* the control handler has read a command from a client in this cycle
ControlCommandRead == ctrl_io.accepted /\ Len(ctrl_io.received) > 0

\* the control handler has answered a command in this cycle
ControlReplied == ControlCommandRead /\ ctrl_io.sent

Prefix2(command) == SubSeq(command, 1, Min(2, Len(command)))

\* the value of a text of decimal digits
RECURSIVE DecimalValue(_)
DecimalValue(text) ==
    IF text = <<>> THEN 0
    ELSE (DecimalValue(SubSeq(text, 1, Len(text) - 1)) * 10)
         + DigitVal(text[Len(text)])

AllDigits(text) == \A i \in 1..Len(text) : IsDigit(text[i])

\* C1 as claimed: in every reachable state, between two executed cycles
\* included, registers[20] equals cycleCount mod 65536.
C1_Register20AlwaysCycleCount ==
    state.registers[20] = U32Low16(state.cycle_count)

\* C1, amended: registers[20] equals cycleCount mod 65536 from a cycle's
\* control-program evaluation until that cycle's counter increment (and
\* before the first evaluation, when both are 0); from the increment until
\* the next evaluation it equals (cycleCount - 1) mod 65536.
C1_Register20LagsBetweenCycles ==
    /\ pc \in AfterEvaluation =>
           state.registers[20] = U32Low16(state.cycle_count)
    /\ (pc \in BeforeEvaluation /\ evaluated) =>
           state.registers[20]
               = (U32Low16(state.cycle_count) + UINT16_MOD - 1) % UINT16_MOD
    /\ ~evaluated =>
           state.registers[20] = 0 /\ state.cycle_count = U32Zero

C1_Witness ==
    /\ pc = "idle"
    /\ evaluated
    /\ state.cycle_count = U32(0, 2)
    /\ state.registers[20] = 1

\* C2: in every reachable state outputs[1] is 1 iff bit 0 of errorCodes is set.
C2_AlarmIffErrorBit ==
    (state.outputs[1] = 1) <=> (state.error_codes % 2 = 1)

C2_Witness ==
    /\ pc = "update_outputs"
    /\ state.inputs[0] > state.registers[1]
    /\ state.outputs[1] = 1
    /\ state.error_codes = 1

\* RI, RO and RR commands whose address is empty, not a number, or too large
\* for an int
MalformedAddressCommands ==
    {<<"R", "I", "a", "b", "c">>,
     <<"R", "I">>,
     <<"R", "O", "?">>,
     <<"R", "R", "9", "9", "9", "9", "9", "9", "9", "9", "9", "9", "9">>}

\* C3: an RI, RO or RR command with an unparseable or overflowing address is
\* answered ERR1 CRLF, the connection is closed and the server goes on.
C3_MalformedAddressIsERR1 ==
    (ctrl_io.accepted /\ ctrl_io.command \in MalformedAddressCommands) =>
        /\ ctrl_io.sent
        /\ ctrl_io.response = ERR1 \o CRLF
        /\ ctrl_io.closed
        /\ pc # "terminated"

\* C4: no failed accept, unusable socket, malformed or unknown command or
\* unavailable log stops the scan loop: the process keeps running its loop.
C4_ScanLoopNeverStops ==
    /\ state.running
    /\ pc \in CycleBodyPositions \union {"idle"}

\* the length of the array an address command reads
ArraySize(command) ==
    IF Prefix2(command) = <<"R", "R">> THEN MAX_REGISTERS
    ELSE IF Prefix2(command) = <<"R", "I">> THEN MAX_INPUTS
    ELSE MAX_OUTPUTS

IsAddressCommand(command) ==
    Prefix2(command) \in {<<"R", "I">>, <<"R", "O">>, <<"R", "R">>}

\* C5: an RI, RO or RR command whose address parses to an integer outside
\* the array, negative ones included, is answered exactly ERR1 CRLF and no
\* cell is read; a cell that is read lies inside its array.
C5_OutOfRangeIsERR1 ==
    LET addr == stoi(substr_from(ctrl_io.command, 2))
    IN  /\ (/\ ControlCommandRead
            /\ IsAddressCommand(ctrl_io.command)
            /\ addr.ok
            /\ addr.value \notin 0..(ArraySize(ctrl_io.command) - 1)) =>
               /\ ctrl_io.sent
               /\ ctrl_io.response = ERR1 \o CRLF
               /\ ctrl_io.read = NoRead
        /\ ctrl_io.read.array = "inputs" =>
               ctrl_io.read.index \in 0..(MAX_INPUTS - 1)
        /\ ctrl_io.read.array = "outputs" =>
               ctrl_io.read.index \in 0..(MAX_OUTPUTS - 1)
        /\ ctrl_io.read.array = "registers" =>
               ctrl_io.read.index \in 0..(MAX_REGISTERS - 1)

C5_Witness ==
    /\ ctrl_io.command = <<"R", "I", "-", "1">>
    /\ ctrl_io.sent
    /\ ctrl_io.response = ERR1 \o CRLF

\* a command without the CRLF that may end it
WithoutTerminator(command) ==
    IF Len(command) >= 2 /\ SubSeq(command, Len(command) - 1, Len(command)) = CRLF
    THEN SubSeq(command, 1, Len(command) - 2)
    ELSE command

\* an address as the grammar writes it: digits, with an optional minus sign
IsAddressText(text) ==
    LET digits == IF text # <<>> /\ Head(text) = "-" THEN Tail(text) ELSE text
    IN  digits # <<>> /\ AllDigits(digits)

\* the commands of the grammar: RI<addr>, RO<addr>, RR<addr>, STATUS
Recognized(command) ==
    LET line == WithoutTerminator(command)
    IN  \/ line = <<"S", "T", "A", "T", "U", "S">>
        \/ IsAddressCommand(line) /\ IsAddressText(substr_from(line, 2))

\* C6: every received command that is not RI<addr>, RO<addr>, RR<addr> or
\* STATUS is answered exactly ERR0 CRLF, also when it begins with RI, RO or
\* RR: whatever reply such a command gets is ERR0 CRLF.
C6_UnrecognizedIsERR0 ==
    (ControlReplied /\ ~Recognized(ctrl_io.command)) =>
        ctrl_io.response = ERR0 \o CRLF

\* the cell an in-range address command reads
AddressedCell(command) ==
    LET addr == stoi(substr_from(command, 2)).value
    IN  IF Prefix2(command) = <<"R", "R">> THEN state.registers[addr]
        ELSE IF Prefix2(command) = <<"R", "I">> THEN state.inputs[addr]
        ELSE state.outputs[addr]

InRangeRead ==
    LET addr == stoi(substr_from(ctrl_io.command, 2))
    IN  /\ ControlReplied
        /\ Recognized(ctrl_io.command)
        /\ IsAddressCommand(ctrl_io.command)
        /\ addr.ok
        /\ addr.value \in 0..(ArraySize(ctrl_io.command) - 1)

\* C7: the reply to RI, RO or RR with an in-range address is exactly four
\* decimal digits, the value of the addressed cell, then CRLF, for every
\* value the cell can hold.
C7_ReadReplyIsFourDigits ==
    InRangeRead =>
        /\ Len(ctrl_io.response) = 6
        /\ AllDigits(SubSeq(ctrl_io.response, 1, 4))
        /\ DecimalValue(SubSeq(ctrl_io.response, 1, 4))
               = AddressedCell(ctrl_io.command)
        /\ SubSeq(ctrl_io.response, 5, 6) = CRLF

IsHexDigit(c) == \E i \in 1..16 : HexDigits[i] = c

\* C8: the STATUS reply is RUN, a comma, the cycle count as exactly 8
\* decimal digits, a comma, the error code as exactly 2 lowercase hexadecimal
\* digits, a comma, a timestamp, CRLF, for every value of the cycle counter.
C8_StatusReplyIsFixedWidth ==
    (ControlReplied
        /\ WithoutTerminator(ctrl_io.command) = <<"S", "T", "A", "T", "U", "S">>) =>
        LET r == ctrl_io.response
        IN  /\ Len(r) = 37
            /\ SubSeq(r, 1, 4) = <<"R", "U", "N", ",">>
            /\ AllDigits(SubSeq(r, 5, 12))
            /\ SubSeq(r, 5, 12) = Pad(U32Decimal(state.cycle_count), 8, "0")
            /\ r[13] = ","
            /\ IsHexDigit(r[14]) /\ IsHexDigit(r[15])
            /\ r[16] = ","
            /\ SubSeq(r, 17, 35) \in Timestamps
            /\ SubSeq(r, 36, 37) = CRLF

\* C9: from a cycle's control-program evaluation on, and so whenever a
\* protocol handler answers in that cycle, registers[20] is the cycle's
\* counter mod 65536: an RR20 reply carries the low 16 bits of the count that
\* a STATUS or management reply of the same cycle reports.
C9_RepliesCarryTheCycleCounter ==
    /\ pc \in {"handle_control_connections", "handle_management_connections",
               "log_cycle_data"} =>
           state.registers[20] = U32Low16(state.cycle_count)
    /\ (ControlReplied /\ ctrl_io.command = <<"R", "R", "2", "0">>) =>
           ctrl_io.response
               = Pad(Decimal(U32Low16(state.cycle_count)), 4, "0") \o CRLF
    /\ (ControlReplied /\ ctrl_io.command = <<"S", "T", "A", "T", "U", "S">>) =>
           SubSeq(ctrl_io.response, 5, Len(ctrl_io.response) - 25)
               = Pad(U32Decimal(state.cycle_count), 8, "0")
    /\ mgmt_io.sent =>
           mgmt_io.response.uptime_cycles = U32Decimal(state.cycle_count)

\* the cycle whose counter is 65536: registers[20] has wrapped to 0
C9_Witness ==
    /\ pc = "handle_management_connections"
    /\ state.cycle_count = U32(1, 0)
    /\ ControlReplied
    /\ ctrl_io.command = <<"R", "R", "2", "0">>
    /\ ctrl_io.response = <<"0", "0", "0", "0">> \o CRLF

\* C10: the cycle body runs only when at least one period has passed since
\* the tick of the previous executed cycle (since initialization for the
\* first), so two consecutive executed ticks are at least a period apart;
\* last_cycle is the tick time of the last executed cycle, so after a stall
\* one body runs and no cycle is made up: k cycles take at least k periods.
C10_NeverFasterThanThePeriod ==
    /\ pc \in CycleBodyPositions => now - last_cycle >= CYCLE_TIME_MS
    /\ pc \in CycleBodyPositions => tick_log = <<last_cycle, now>>
    /\ pc = "idle" => last_cycle = tick_log[2]
    /\ tick_log # <<0, 0>> => tick_log[2] - tick_log[1] >= CYCLE_TIME_MS
    /\ state.cycle_count.hi = 0
    /\ state.cycle_count.lo * CYCLE_TIME_MS <= last_cycle

\* a stall of two and a half periods, one cycle body, and a next tick 99 ms
\* later that runs nothing
C10_Witness ==
    /\ pc = "idle"
    /\ tick_log = <<0, 250>>
    /\ last_cycle = 250
    /\ now = 349
    /\ state.cycle_count = U32(0, 1)

\* the order of the positions of run_scan_cycle; the only other step is the
\* end of the process in the control service
PhaseOrder ==
    {<<"idle", "scan_inputs">>,
     <<"scan_inputs", "execute_control_logic">>,
     <<"execute_control_logic", "update_outputs">>,
     <<"update_outputs", "handle_control_connections">>,
     <<"handle_control_connections", "handle_management_connections">>,
     <<"handle_management_connections", "log_cycle_data">>,
     <<"log_cycle_data", "end_of_cycle">>,
     <<"end_of_cycle", "idle">>,
     <<"handle_control_connections", "terminated">>}

NetworkPositions ==
    {"handle_control_connections", "handle_management_connections"}

\* the fields of a text between separators
RECURSIVE Split(_, _)
Split(text, sep) ==
    IF \A i \in 1..Len(text) : text[i] # sep
    THEN <<text>>
    ELSE LET i == CHOOSE k \in 1..Len(text) :
                      text[k] = sep /\ \A j \in 1..(k - 1) : text[j] # sep
         IN  <<SubSeq(text, 1, i - 1)>>
                 \o Split(SubSeq(text, i + 1, Len(text)), sep)

IsStatusCommand(command) ==
    WithoutTerminator(command) = <<"S", "T", "A", "T", "U", "S">>

\* the value of a text of lowercase hexadecimal digits
RECURSIVE HexadecimalValue(_)
HexadecimalValue(text) ==
    IF text = <<>> THEN 0
    ELSE (HexadecimalValue(SubSeq(text, 1, Len(text) - 1)) * 16)
         + (CHOOSE d \in 0..15 : HexDigits[d + 1] = text[Len(text)])

\* what the replies of the cycle's two services show of the state
C11_Snapshot ==
    /\ pc \in NetworkPositions \union {"log_cycle_data"} =>
           /\ state.registers[100] = state.inputs[0]
           /\ state.registers[101] = state.outputs[0]
    /\ mgmt_io.sent =>
           /\ mgmt_io.response.current_temperature
                  = mgmt_io.response.temperature_raw
           /\ mgmt_io.response.heater_status
                  = mgmt_io.response.heater_command
    /\ (ControlReplied /\ IsStatusCommand(ctrl_io.command) /\ mgmt_io.sent) =>
           LET fields == Split(ctrl_io.response, ",")
           IN  /\ DecimalValue(fields[2])
                      = DecimalValue(mgmt_io.response.uptime_cycles)
               /\ HexadecimalValue(fields[3])
                      = HexadecimalValue(substr_from(mgmt_io.response.error_codes, 2))

\* the steps of a cycle: the positions follow each other in the order of
\* run_scan_cycle, the counter moves only in the last one, only the sampling
\* changes the inputs, and the two services change nothing of the state
C11_Step ==
    /\ pc' # pc => <<pc, pc'>> \in PhaseOrder
    /\ state'.cycle_count # state.cycle_count => pc = "end_of_cycle"
    /\ state'.inputs # state.inputs => pc = "scan_inputs"
    /\ state'.outputs # state.outputs => pc = "execute_control_logic"
    /\ pc \in NetworkPositions \union {"log_cycle_data"} => state' = state
    /\ log_file'.rows # log_file.rows => pc = "log_cycle_data"

\* C11: in every executed cycle the phases run in the order input sampling,
\* control-program evaluation, output commit, control service, management
\* service, logging, counter increment, and nothing changes the state between
\* the two services; every reply of the cycle shows registers[100] = inputs[0]
\* and registers[101] = outputs[0], and a management reply and a STATUS reply
\* of the same cycle report the same cycle count and the same error code.
C11_PhasesInOrderOneSnapshot ==
    []C11_Snapshot /\ [][C11_Step]_vars

\* a cycle in which a STATUS command and a management request were answered
C11_Witness ==
    /\ pc = "log_cycle_data"
    /\ ControlReplied
    /\ ctrl_io.command = <<"S", "T", "A", "T", "U", "S">>
    /\ mgmt_io.sent
    /\ state.registers[100] = state.inputs[0]
    /\ state.cycle_count = U32(0, 1)

\* C12: every management connection accepted in a cycle, whatever the client
\* has sent by then and also when it has sent nothing, is sent the complete
\* response once and is then closed.
C12_EveryManagementConnectionAnswered ==
    mgmt_io.accepted =>
        /\ mgmt_io.sent
        /\ mgmt_io.response = process_http_request(state, mgmt_io.response.timestamp)
        /\ mgmt_io.closed

\* C13: while the log is open a row is written in every 10th executed cycle,
\* so a run of 100 consecutive executed cycles adds exactly 10 rows wherever
\* the 32-bit cycle counter stands when the run begins; no client connects,
\* so no handler reads or answers anything.
C13_TenRowsPerHundredCycles ==
    /\ now = 100 * CYCLE_TIME_MS => log_file.rows = 10
    /\ ctrl_io = NoControlIO /\ mgmt_io = NoManagementIO
    /\ state.last_error = <<>>

\* serving a connection: a step of one of the two handlers
C14_Step ==
    pc \in NetworkPositions => state' = state

\* the STATUS reply is a function of the state the handler leaves behind
C14_StatusFields ==
    (ControlReplied /\ IsStatusCommand(ctrl_io.command)) =>
        LET fields == Split(ctrl_io.response, ",")
        IN  /\ fields[1] = <<"R", "U", "N">>
            /\ fields[2] = Pad(U32Decimal(state.cycle_count), 8, "0")
            /\ fields[3] = Pad(Hexadecimal(state.error_codes), 2, "0")

\* C14: serving any control command (RI, RO, RR, STATUS, unknown) or any
\* management request leaves every field of the process image unchanged
\* (running, cycle_count, inputs, outputs, registers, error_codes,
\* last_error); so the count and error-code fields of a STATUS reply are
\* those of the cycle's state, the same for every STATUS answered against it.
C14_HandlersOnlyRead ==
    []C14_StatusFields /\ [][C14_Step]_vars

\* a cycle whose two handlers both answered, the alarm still standing
C14_Witness ==
    /\ pc = "log_cycle_data"
    /\ ControlReplied
    /\ ctrl_io.command = <<"S", "T", "A", "T", "U", "S", CR, LF>>
    /\ mgmt_io.sent
    /\ state.error_codes = 1
    /\ state.outputs[1] = 1

\* C15: after the control-program evaluation of a cycle, outputs[0] is 1 if
\* the cycle sampled inputs[2] = 1 and inputs[0] < registers[0], and 0
\* otherwise: with registers[0] = 100, inputs[0] = 90 and inputs[2] = 1 the
\* heater is on after the cycle's evaluation, and with the run enable at 0 it
\* is off whatever the temperature.
C15_HeaterFollowsRung2 ==
    pc \in AfterEvaluation =>
        /\ (state.outputs[0] = 1) <=>
               (state.inputs[2] = 1 /\ state.inputs[0] < state.registers[0])
        /\ state.outputs[0] \in {0, 1}
        /\ (state.registers[0] = 100 /\ state.inputs[0] = 90
                /\ state.inputs[2] = 1) => state.outputs[0] = 1
        /\ state.inputs[2] = 0 => state.outputs[0] = 0

\* the first cycle of an instance that sampled 90 with the run enable on
C15_Witness ==
    /\ pc = "update_outputs"
    /\ state.cycle_count = U32Zero
    /\ state.registers[0] = 100
    /\ state.inputs[0] = 90
    /\ state.inputs[2] = 1
    /\ state.outputs[0] = 1

\* the state and the replies after a cycle's evaluation
C16_AfterEvaluation ==
    /\ (pc \in AfterEvaluation /\ state.inputs[0] > state.registers[1]) =>
           /\ state.outputs[1] = 1
           /\ state.error_codes = 1
    /\ (pc \in AfterEvaluation /\ state.inputs[0] <= state.registers[1]) =>
           /\ state.outputs[1] = 0
           /\ state.error_codes % 2 = 0
    /\ (ControlReplied /\ ctrl_io.command = <<"R", "R", "1">>) =>
           /\ state.registers[1] = 50
           /\ ctrl_io.response = <<"0", "0", "5", "0">> \o CRLF
    /\ (/\ ControlReplied
        /\ ctrl_io.command = <<"R", "O", "1">>
        /\ state.inputs[0] > state.registers[1]) =>
           ctrl_io.response = <<"0", "0", "0", "1">> \o CRLF
    /\ (/\ ControlReplied
        /\ ctrl_io.command = <<"R", "O", "1">>
        /\ state.inputs[0] <= state.registers[1]) =>
           ctrl_io.response = <<"0", "0", "0", "0">> \o CRLF

\* the evaluation touches bit 0 of error_codes only, and never the threshold
C16_Step ==
    /\ state'.error_codes \div 2 = state.error_codes \div 2
    /\ state'.registers[1] = state.registers[1]

\* C16: after a cycle that sampled inputs[0] > registers[1], outputs[1] is 1
\* and error_codes is 0x01, and a control request of that cycle gets 0050 for
\* RR1 (the threshold 50) and 0001 for RO1; after a cycle that sampled
\* inputs[0] <= registers[1], outputs[1] is 0 and bit 0 of error_codes is
\* clear, its other bits as they were.
C16_AlarmFollowsRung3 ==
    []C16_AfterEvaluation /\ [][C16_Step]_vars

\* a cycle that sampled 200 and answered RO1
C16_Witness ==
    /\ pc = "handle_management_connections"
    /\ state.inputs[0] = 200
    /\ state.registers[1] = 50
    /\ state.error_codes = 1
    /\ ControlReplied
    /\ ctrl_io.command = <<"R", "O", "1">>
    /\ ctrl_io.response = <<"0", "0", "0", "1">> \o CRLF

\* C17: each server accepts at most one connection in a cycle; of two clients
\* that wait on the same endpoint before a cycle's network phase one is
\* served in that cycle, and the connection of the other is never served in
\* a later cycle.
C17_SecondWaitingClientNeverServed ==
    /\ ctrl_io.accepted => ctrl_io.client # StartupClients[2]
    /\ mgmt_io.accepted => mgmt_io.client # StartupClients[2]

\* c + 1 modulo 2^32, on the two halves of a counter
SuccessorMod2to32(c) ==
    IF c.lo < UINT16_MOD - 1 THEN U32(c.hi, c.lo + 1)
    ELSE IF c.hi < UINT16_MOD - 1 THEN U32(c.hi + 1, 0)
    ELSE U32(0, 0)

\* a new process has counted nothing
C18_Start ==
    (now = 0 /\ ~evaluated) => state.cycle_count = U32(0, 0)

\* the counter moves in the last step of an executed cycle, by one, and in
\* no other step; a step taken between two cycles, a tick that runs no cycle
\* body included, leaves the whole state as it is
C18_Step ==
    /\ pc = "end_of_cycle" =>
           state'.cycle_count = SuccessorMod2to32(state.cycle_count)
    /\ pc # "end_of_cycle" => state'.cycle_count = state.cycle_count
    /\ (pc = "idle" /\ pc' = "idle") => state' = state
    /\ (pc = "idle" /\ pc' = "scan_inputs") =>
           CycleDue(now' - last_cycle) /\ state' = state

\* C18: cycle_count is 0 when the process starts, grows by exactly 1 modulo
\* 2^32 in each executed cycle and is never reset otherwise; a tick that
\* runs no cycle body, less than a period having passed, changes neither the
\* counter nor any other field of the process image.
C18_CounterCountsExecutedCycles ==
    []C18_Start /\ [][C18_Step]_vars

\* the counter has wrapped from 2^32 - 1 to 0, and a tick 99 ms later ran
\* nothing
C18_Witness ==
    /\ pc = "idle"
    /\ evaluated
    /\ state.cycle_count = U32(0, 0)
    /\ state.registers[20] = UINT16_MOD - 1
    /\ now - last_cycle = 99

\* C19: every control connection accepted in a cycle is closed in that
\* cycle: without anything sent when the client had sent no bytes by the time
\* of the read, and after exactly one reply to the bytes read otherwise.
C19_ControlConnectionAnsweredAndClosed ==
    ctrl_io.accepted =>
        /\ ctrl_io.closed
        /\ ctrl_io.received = <<>> => ~ctrl_io.sent
        /\ ctrl_io.received # <<>> =>
               /\ ctrl_io.sent
               /\ Len(ctrl_io.response) > 2
               /\ substr_from(ctrl_io.response, Len(ctrl_io.response) - 2) = CRLF

\* the commands exactly as the grammar writes them: STATUS, or RI, RO or RR
\* followed by decimal digits and nothing else, CRLF allowed at the end
IsExactCommand(command) ==
    LET line == WithoutTerminator(command)
    IN  \/ line = <<"S", "T", "A", "T", "U", "S">>
        \/ /\ IsAddressCommand(line)
           /\ Len(line) > 2
           /\ AllDigits(substr_from(line, 2))

LowerCaseForms == {<<"r", "i", "0">>}

\* C20: the grammar is matched exactly and with case: a command followed by
\* other characters than the terminator (STATUSX, RI5x), or with a space or
\* a sign before the address digits (RI 5, RI+5), is not answered with the
\* reply of the command it contains but with an error, and a lower-case form
\* (ri0) is answered ERR0.
C20_GrammarIsExact ==
    /\ (ControlReplied /\ ~IsExactCommand(ctrl_io.command)) =>
           /\ ctrl_io.response \in {ERR0 \o CRLF, ERR1 \o CRLF}
           /\ ctrl_io.read = NoRead
    /\ (ControlReplied /\ ctrl_io.command \in LowerCaseForms) =>
           ctrl_io.response = ERR0 \o CRLF

\* C21: after any number of executed cycles the sampled temperature is
\* within 600..900 and the sampled pressure is the simulated quantity itself,
\* inside its range: the 16-bit cell never holds a value that came from the
\* quantity leaving 0..65535 and wrapping, whatever the random steps were.
C21_SampledInputsStayInRange ==
    evaluated =>
        /\ state.inputs[0] \in 600..900
        /\ state.inputs[3] =
               IF virtual_hardware THEN pressure_simulation ELSE pressure_base
        /\ virtual_hardware => state.inputs[3] \in 400..600

\* C22: in every row of the log, the first and every later one, the cycle
\* count, the four input values and the four output values are written in
\* decimal and the error code alone in hexadecimal: a row written earlier
\* does not change how the fields of a later row are rendered.
C22_RowFieldsAreDecimal ==
    (pc = "end_of_cycle" /\ log_file.written # NoRow) =>
        /\ log_file.written.cycle = U32Decimal(state.cycle_count)
        /\ \A i \in 0..3 :
               /\ log_file.written.inputs[i] = Decimal(state.inputs[i])
               /\ log_file.written.outputs[i] = Decimal(state.outputs[i])
        /\ log_file.written.err = Hexadecimal(state.error_codes)

\* C23: nothing changes registers[0] (100) or registers[1] (50) once the
\* control program is loaded, and every sampled temperature is at least 600;
\* so after every executed cycle of the running system outputs[0] is 0 (the
\* heater is never on), outputs[1] is 1 and error_codes is 0x01 (the alarm
\* stays on), and registers[101] is 0.
C23_HeaterNeverOnAlarmAlwaysOn ==
    /\ state.registers[0] = 100
    /\ state.registers[1] = 50
    /\ (evaluated \/ pc \in AfterEvaluation \union {"execute_control_logic"}) =>
           state.inputs[0] >= 600
    /\ (evaluated /\ pc # "execute_control_logic") =>
           /\ state.outputs[0] = 0
           /\ state.outputs[1] = 1
           /\ state.error_codes = 1
    /\ state.outputs[0] = 0
    /\ state.registers[101] = 0

\* two executed cycles of the virtual build, its temperature drifting down
\* and the run enable taken away
C23_Witness ==
    /\ pc = "idle"
    /\ evaluated
    /\ virtual_hardware
    /\ state.cycle_count = U32(0, 2)
    /\ state.inputs[0] < 750
    /\ state.inputs[2] = 0
    /\ state.outputs[0] = 0
    /\ state.outputs[1] = 1
    /\ state.error_codes = 1
    /\ state.registers[101] = 0

====
